---- MODULE Spec2Model ----
(***************************************************************************)
(* Memory-aware LRU cache decorator (src/lru_cache.py).                    *)
(*                                                                         *)
(* One decorated function (one closure of decorating_function) is called   *)
(* by several threads.  The closure's state is the dict `cache`, the       *)
(* circular doubly linked list reached from `root`, the counters `hits`    *)
(* and `misses`, the flag `full` and the RLock `lock`.                     *)
(*                                                                         *)
(* Grain of the steps.  A `with lock:` block of a wrapper or of cache_info *)
(* is one step, taken when the lock can be acquired.  cache_info reads its *)
(* four values in one step in every branch: each read is of one variable,  *)
(* and the states between the lock-free wrappers' statements are states of *)
(* the model, so the snapshot can fall between any two of them.  The       *)
(* wrappers of maxsize=None and maxsize=0 take no lock, so their           *)
(* statements are steps of their own, `+= 1` being a load and a store, and *)
(* cache_clear, which they race with, is two steps: the statements that    *)
(* touch what those wrappers touch (cache.clear(); hits = misses = 0) each *)
(* begin one, the lock being held in between.                              *)
(*                                                                         *)
(* Kinds of run.  Spec: threads call with int arguments, user_function     *)
(* returns and the memory probe answers.  SpecSeq: the same, one call at a *)
(* time.  SpecOpen: user_function may also raise or call the decorated     *)
(* function, and the probe may raise; SpecLive is SpecOpen under fair      *)
(* scheduling.  SpecMixed: arguments are ints, floats or (unhashable)      *)
(* lists, and typed is either value.                                       *)
(***************************************************************************)
EXTENDS Integers, Sequences, FiniteSets, TLC

\* ------------------------------------------------------------------ bounds
NKeys == 3          \* distinct argument values a caller may pass
NResults == 2       \* distinct values user_function may return
MaxSize == 2        \* largest maxsize a cache is built with
MaxThreshold == 1   \* largest use_memory_up_to a cache is built with
MaxOps == 3         \* calls (wrapper, cache_info, cache_clear) started in a run
MaxSeqOps == 4      \* the same, in a run whose calls never overlap
MaxDepth == 1       \* calls of the wrapper nested inside one user_function call

\* Python's None in the integer-valued slots of the model.
None == -1

\* The TypeError of hash(tup), where a key would have been.
TypeError == -2

Threads == {1, 2}
Keys == 1 .. NKeys
Results == 1 .. NResults
Thresholds == 1 .. MaxThreshold

VARIABLES
    maxsize,            \* lru_cache parameter (None after line 90)
    use_memory_up_to,   \* lru_cache parameter (0: not set)
    cache,              \* dict: key -> link (LRU branches) or result (unbounded)
    links,              \* heap of list cells: id -> [PREV, NEXT, KEY, RESULT]
    root,               \* id of the current root cell
    hits, misses, full, \* nonlocal counters and flag
    lock,               \* RLock: [owner, count]
    avail,              \* available memory, as the probe would read it now
    pc, key, result, tmp,   \* per thread: position, key, result, loaded counter
    order,              \* keys of the LRU branches, by last access, oldest first
    probeAtInsert,      \* what the probe would give, or gave, when the latest
                        \* insertion was made (None: none yet, or it raised)
    serial,             \* whether calls are made one at a time
    open,               \* whether user_function may raise or call the
                        \* decorated function, and the memory probe may raise
    mixed,              \* whether arguments of any type are passed
    typed,              \* lru_cache parameter
    stack,              \* per thread: the calls that wait, inside
                        \* user_function, for the call the thread is making
    argtype,            \* per thread: type of the argument of its call
    cleared,            \* whether cache_clear has run
    calledKeys,         \* serial runs: arguments passed since the last clear
    firstRet,           \* serial runs: what the first call since then returned
    ncalls,             \* wrapper calls that returned a result since then
    nops                \* calls started so far

vars == <<maxsize, use_memory_up_to, cache, links, root, hits, misses, full,
          lock, avail, pc, key, result, tmp, order, probeAtInsert, serial,
          open, mixed, typed, stack, argtype, cleared, calledKeys, firstRet,
          ncalls, nops>>

engine == <<cache, links, root, hits, misses, full>>
params == <<maxsize, use_memory_up_to, typed>>
seen == <<calledKeys, firstRet, ncalls, cleared>>
ghost == <<order, probeAtInsert, serial, open, mixed, argtype, seen>>

\* ------------------------------------------------------- branch selection
IsMemory == use_memory_up_to # 0
IsDisabled == ~IsMemory /\ maxsize = 0
IsUnbounded == ~IsMemory /\ maxsize = None
IsLru == ~IsMemory /\ maxsize # 0 /\ maxsize # None
IsLocked == IsMemory \/ IsLru

\* What psutil.virtual_memory().available may read: just below the threshold
\* and the threshold itself.
AvailLevels == {use_memory_up_to - 1, use_memory_up_to}

\* ---------------------------------------------------------------- helpers
Put(f, k, v) == [x \in (DOMAIN f) \cup {k} |-> IF x = k THEN v ELSE f[x]]
Del(f, k) == [x \in (DOMAIN f) \ {k} |-> f[x]]

\* The types of the arguments passed: int and float are hashable, list is not.
ArgTypes == IF mixed THEN {"int", "float", "list"} ELSE {"int"}

\* An argument: a value of a type (3 and 3.0 have the same val).
ArgValues == [type : ArgTypes, val : Keys]

\* Of the types passed, the ones _make_key returns without a wrapper.
fasttypes == {"int"}

\* _HashedSeq(key) for the one-argument calls the model makes.  hash(tup)
\* raises TypeError when an element is unhashable.  Otherwise the object is a
\* list: it equals another _HashedSeq with equal elements and no bare int.
\* Keys are numbered so that equal keys get one number: a bare int v is v,
\* [v.0] is NKeys + v, [v, int] is 2 * NKeys + v, [v.0, float] 3 * NKeys + v.
HashedSeq(args, withTypes) ==
    IF \E i \in 1 .. Len(args) : args[i].type = "list" THEN TypeError
    ELSE IF ~withTypes THEN NKeys + args[1].val
    ELSE IF args[1].type = "int" THEN 2 * NKeys + args[1].val
    ELSE 3 * NKeys + args[1].val

\* _make_key(args, {}, typed)
make_key(args, isTyped) ==
    IF isTyped THEN HashedSeq(args, TRUE)
    ELSE IF Len(args) = 1 /\ args[1].type \in fasttypes THEN args[1].val
    ELSE HashedSeq(args, FALSE)

\* cache.get(key): the stored value, or None.
cache_getMiss(c, k) == None
cache_get(c, k) == IF k \in DOMAIN c THEN c[k] ELSE None

\* key in cache
KeyInCacheNever(c, k) == FALSE
KeyInCache(c, k) == k \in DOMAIN c

\* RLock
LockFree == [owner |-> None, count |-> 0]
CanAcquire(l, t) == l.owner = None \/ l.owner = t
Acquire(l, t) == [owner |-> t, count |-> l.count + 1]
ReleaseKept(l, t) == l
Release(l, t) == IF l.count = 1 THEN LockFree ELSE [l EXCEPT !.count = @ - 1]

\* hits += 1, misses += 1 inside a lock block
IncrSkipped(n) == n
Incr(n) == n + 1

\* full = False, in cache_clear
FullAfterClearKept == full
FullAfterClear == FALSE

\* root[:] = [root, root, None, None]
EmptyRoot(r) == [PREV |-> r, NEXT |-> r, KEY |-> None, RESULT |-> None]

\* A new list object: the smallest id not in use.
NewLink(h) == CHOOSE n \in 0 .. Cardinality(DOMAIN h) : n \notin DOMAIN h

\* Move the link to the front of the circular queue.
PromoteSkipped(h, r, link) == h
Promote(h, r, link) ==
    LET link_prev == h[link].PREV
        link_next == h[link].NEXT
        h1 == [h EXCEPT ![link_prev].NEXT = link_next]
        h2 == [h1 EXCEPT ![link_next].PREV = link_prev]
        last == h2[r].PREV
        h3 == [h2 EXCEPT ![last].NEXT = link]
        h4 == [h3 EXCEPT ![r].PREV = link]
        h5 == [h4 EXCEPT ![link].PREV = last]
    IN  [h5 EXCEPT ![link].NEXT = r]

\* full = (len(cache) >= maxsize)
FullMaxsizeLate(n) == n > maxsize
FullMaxsize(n) == n >= maxsize

\* full = (psutil.virtual_memory().available < use_memory_up_to)
FullMemoryInverted(a) == a > use_memory_up_to
FullMemory(a) == a < use_memory_up_to

\* Put result in a new link at the front of the queue: [links, cache].
InsertNewHalfLinked(h, c, r, k, res) ==
    LET last == h[r].PREV
        link == NewLink(h)
        h1 == Put(h, link, [PREV |-> last, NEXT |-> r, KEY |-> k, RESULT |-> res])
        h2 == [h1 EXCEPT ![last].NEXT = link]
    IN  [links |-> h2, cache |-> Put(c, k, link), root |-> r, raised |-> FALSE]
InsertNew(h, c, r, k, res) ==
    LET last == h[r].PREV
        link == NewLink(h)
        h1 == Put(h, link, [PREV |-> last, NEXT |-> r, KEY |-> k, RESULT |-> res])
        h2 == [h1 EXCEPT ![last].NEXT = link]
        h3 == [h2 EXCEPT ![r].PREV = link]
    IN  [links |-> h3, cache |-> Put(c, k, link), root |-> r, raised |-> FALSE]

\* Use the old root to store the new key and result; the oldest link becomes
\* the new root.  del cache[oldkey] raises KeyError when oldkey is not a key.
InsertReuse(h, c, r, k, res) ==
    LET oldroot == r
        h1 == [h EXCEPT ![oldroot].KEY = k, ![oldroot].RESULT = res]
        newroot == h1[oldroot].NEXT
        oldkey == h1[newroot].KEY
        h2 == [h1 EXCEPT ![newroot].KEY = None, ![newroot].RESULT = None]
    IN  IF oldkey \in DOMAIN c
        THEN [links |-> h2, cache |-> Put(Del(c, oldkey), k, oldroot),
              root |-> newroot, raised |-> FALSE]
        ELSE [links |-> h2, cache |-> c, root |-> newroot, raised |-> TRUE]

\* `seq` with k moved to (or put at) its end: k is the latest key accessed.
Touch(seq, k) ==
    LET Other(x) == x # k IN Append(SelectSeq(seq, Other), k)

\* `seq` without the keys that are not in `keys`.
Kept(seq, keys) ==
    LET In(x) == x \in keys IN SelectSeq(seq, In)

\* The calls a run may start.
Budget == IF serial THEN MaxSeqOps ELSE MaxOps

\* A thread may start a call; in a serial run, only when no call is running.
Idle(t) ==
    /\ pc[t] = "idle"
    /\ nops < Budget
    /\ serial => \A u \in Threads : pc[u] = "idle"
    /\ nops' = nops + 1

Goto(t, label) == pc' = [pc EXCEPT ![t] = label]

\* ------------------------------------------------------------------- Init
InitEngine ==
    /\ use_memory_up_to \in {0} \cup Thresholds
    /\ maxsize \in IF use_memory_up_to # 0 THEN {None}
                   ELSE {None} \cup (0 .. MaxSize)
    /\ cache = <<>>
    /\ root = 0
    /\ links = [n \in {0} |-> EmptyRoot(0)]
    /\ hits = 0
    /\ misses = 0
    /\ full = FALSE
    /\ lock = LockFree
    /\ avail \in IF IsMemory THEN AvailLevels ELSE {0}
    /\ pc = [t \in Threads |-> "idle"]
    /\ key = [t \in Threads |-> None]
    /\ result = [t \in Threads |-> None]
    /\ tmp = [t \in Threads |-> None]
    /\ order = <<>>
    /\ probeAtInsert = None
    /\ stack = [t \in Threads |-> <<>>]
    /\ argtype = [t \in Threads |-> "none"]
    /\ cleared = FALSE
    /\ calledKeys = {}
    /\ firstRet = None
    /\ ncalls = 0
    /\ nops = 0

Init ==
    InitEngine /\ serial = FALSE /\ open = FALSE /\ mixed = FALSE /\ typed = FALSE

InitSeq ==
    InitEngine /\ serial = TRUE /\ open = FALSE /\ mixed = FALSE /\ typed = FALSE

InitOpen ==
    InitEngine /\ serial = FALSE /\ open = TRUE /\ mixed = FALSE /\ typed = FALSE

InitMixed ==
    InitEngine /\ serial = FALSE /\ open = FALSE /\ mixed = TRUE /\ typed \in BOOLEAN

\* ---------------------------------------------------------------- wrapper
\* A thread calls the decorated function with one positional argument.
\* The wrapper of maxsize=0 builds no key; the others build it first, and a
\* TypeError of make_key leaves the wrapper at once.
Enter(t) ==
    /\ \E a \in ArgValues :
        LET k == IF IsDisabled THEN None ELSE make_key(<<a>>, typed) IN
        /\ key' = [key EXCEPT ![t] = IF k = TypeError THEN None ELSE k]
        /\ argtype' = [argtype EXCEPT ![t] = a.type]
        /\ calledKeys' = IF serial THEN calledKeys \cup {a.val} ELSE calledKeys
        /\ Goto(t, IF k = TypeError THEN "raise"
                   ELSE IF IsLocked THEN "lookup"
                   ELSE IF IsUnbounded THEN "u_get" ELSE "compute")
    /\ UNCHANGED <<params, engine, lock, avail, result, tmp, order,
                   probeAtInsert, serial, open, mixed, firstRet, ncalls, cleared>>

Call(t) ==
    /\ Idle(t)
    /\ Enter(t)
    /\ UNCHANGED stack

\* user_function calls the decorated function: the call that is computing
\* waits for the new one.  Its result is not kept.
Reenter(t) ==
    /\ nops' = nops + 1
    /\ stack' = [stack EXCEPT ![t] =
                    <<[key |-> key[t], arg |-> argtype[t]]>> \o @]
    /\ Enter(t)

\* with lock: (first block).  A hit promotes and counts, then returns from
\* inside the block; a miss leaves the block.  Either way the lock is released.
LookupStep(t) ==
    /\ pc[t] = "lookup"
    /\ CanAcquire(lock, t)
    /\ LET link == cache_get(cache, key[t]) IN
        IF link # None
        THEN /\ links' = Promote(links, root, link)
             /\ hits' = Incr(hits)
             /\ result' = [result EXCEPT ![t] = links[link].RESULT]
             /\ order' = Touch(order, key[t])
             /\ Goto(t, "return_hit")
        ELSE /\ Goto(t, "compute")
             /\ UNCHANGED <<links, hits, result, order>>
    /\ lock' = Release(Acquire(lock, t), t)
    /\ UNCHANGED <<params, stack, cache, root, misses, full, avail,
                   key, tmp, probeAtInsert, serial, open, mixed, argtype, seen,
                   nops>>

MemLookup(t) == IsMemory /\ LookupStep(t)

LruLookup(t) == IsLru /\ LookupStep(t)

\* What a call of user_function may end with: a result or, in an open run,
\* an exception (None).
Outcomes == Results \cup (IF open THEN {None} ELSE {})

\* Where an exception of user_function takes the wrapper: out of it.
PropagateSwallowed == "return_miss"
Propagate == "raise"

\* Whether user_function goes on to call the decorated function (TRUE) or
\* ends (FALSE).
Nesting(t) ==
    {FALSE} \cup (IF open /\ Len(stack[t]) < MaxDepth /\ nops < Budget
                  THEN {TRUE} ELSE {})

\* result = user_function(*args, **kwds): any result; an exception leaves the
\* wrapper from this line.
Compute(t) ==
    /\ pc[t] = "compute"
    /\ \E nest \in Nesting(t) :
        IF nest THEN Reenter(t)
        ELSE /\ \E r \in Outcomes :
                IF r = None
                THEN /\ Goto(t, Propagate)
                     /\ UNCHANGED result
                ELSE /\ result' = [result EXCEPT ![t] = r]
                     /\ Goto(t, IF IsLocked THEN "insert"
                                ELSE IF IsUnbounded THEN "u_store" ELSE "d_load")
             /\ UNCHANGED <<params, stack, engine, lock, avail, key, tmp,
                            ghost, nops>>

\* What psutil.virtual_memory().available gives now: the available memory
\* or, in an open run, an exception (None).
Probe == {avail} \cup (IF open /\ IsMemory THEN {None} ELSE {})

\* with lock: (second block), the same in the two LRU wrappers but for the
\* fullness test, which is evaluated after a fresh insertion only.  A KeyError
\* of del cache[oldkey] leaves the block before misses += 1.
InsertStep(t) ==
    /\ pc[t] = "insert"
    /\ CanAcquire(lock, t)
    /\ IF KeyInCache(cache, key[t])
       THEN \* the same key was added while the lock was released
            /\ misses' = Incr(misses)
            /\ Goto(t, "return_miss")
            /\ UNCHANGED <<cache, links, root, full, order, probeAtInsert>>
       ELSE IF full
       THEN LET r == InsertReuse(links, cache, root, key[t], result[t]) IN
            /\ links' = r.links
            /\ cache' = r.cache
            /\ root' = r.root
            /\ misses' = IF r.raised THEN misses ELSE Incr(misses)
            /\ Goto(t, IF r.raised THEN "raise" ELSE "return_miss")
            /\ order' = IF r.raised THEN order
                        ELSE Touch(Kept(order, DOMAIN r.cache), key[t])
            /\ probeAtInsert' = IF r.raised THEN probeAtInsert ELSE avail
            /\ UNCHANGED full
       ELSE LET r == InsertNew(links, cache, root, key[t], result[t]) IN
            /\ links' = r.links
            /\ cache' = r.cache
            /\ order' = Touch(Kept(order, DOMAIN r.cache), key[t])
            /\ \E a \in Probe :
                /\ probeAtInsert' = a
                /\ IF a = None
                   THEN \* the exception leaves the block from line 164
                        /\ Goto(t, "raise")
                        /\ UNCHANGED <<full, misses>>
                   ELSE /\ full' = IF IsMemory THEN FullMemory(a)
                                   ELSE FullMaxsize(Cardinality(DOMAIN r.cache))
                        /\ misses' = Incr(misses)
                        /\ Goto(t, "return_miss")
            /\ UNCHANGED root
    /\ lock' = Release(Acquire(lock, t), t)
    /\ UNCHANGED <<params, stack, hits, avail, key, result, tmp,
                   serial, open, mixed, argtype, seen, nops>>

MemInsert(t) == IsMemory /\ InsertStep(t)

LruInsert(t) == IsLru /\ InsertStep(t)

\* return result (or the exception leaves the wrapper): the call is over.
\* A call made by user_function returns into it, to the call that waited.
WrapperReturn(t) ==
    /\ pc[t] \in {"return_hit", "return_miss", "raise"}
    /\ IF stack[t] = <<>>
       THEN /\ Goto(t, "idle")
            /\ key' = [key EXCEPT ![t] = None]
            /\ argtype' = [argtype EXCEPT ![t] = "none"]
            /\ UNCHANGED stack
       ELSE /\ Goto(t, "compute")
            /\ key' = [key EXCEPT ![t] = Head(stack[t]).key]
            /\ argtype' = [argtype EXCEPT ![t] = Head(stack[t]).arg]
            /\ stack' = [stack EXCEPT ![t] = Tail(@)]
    /\ result' = [result EXCEPT ![t] = None]
    /\ ncalls' = IF pc[t] # "raise" THEN ncalls + 1 ELSE ncalls
    /\ firstRet' = IF serial /\ firstRet = None /\ pc[t] # "raise"
                   THEN result[t] ELSE firstRet
    /\ UNCHANGED <<params, engine, lock, avail, tmp, order, probeAtInsert,
                   serial, open, mixed, calledKeys, cleared, nops>>

\* ------------------------------------------------------ unbounded wrapper
\* result = cache_get(key, sentinel); if result is not sentinel: ...
UGet(t) ==
    /\ pc[t] = "u_get"
    /\ LET r == cache_get(cache, key[t]) IN
        IF r # None
        THEN /\ result' = [result EXCEPT ![t] = r]
             /\ Goto(t, "u_hits_load")
        ELSE /\ Goto(t, "compute")
             /\ UNCHANGED result
    /\ UNCHANGED <<params, stack, engine, lock, avail, key, tmp,
                   ghost, nops>>

\* hits += 1, the read
UHitsLoad(t) ==
    /\ pc[t] = "u_hits_load"
    /\ tmp' = [tmp EXCEPT ![t] = hits]
    /\ Goto(t, "u_hits_store")
    /\ UNCHANGED <<params, stack, engine, lock, avail, key, result,
                   ghost, nops>>

\* hits += 1, the write
UHitsStore(t) ==
    /\ pc[t] = "u_hits_store"
    /\ hits' = tmp[t] + 1
    /\ tmp' = [tmp EXCEPT ![t] = None]
    /\ Goto(t, "return_hit")
    /\ UNCHANGED <<params, stack, cache, links, root, misses, full,
                   lock, avail, key, result, ghost, nops>>

\* cache[key] = result
UStore(t) ==
    /\ pc[t] = "u_store"
    /\ cache' = Put(cache, key[t], result[t])
    /\ Goto(t, "u_misses_load")
    /\ UNCHANGED <<params, stack, links, root, hits, misses, full,
                   lock, avail, key, result, tmp, ghost, nops>>

\* misses += 1, the read
UMissesLoad(t) ==
    /\ pc[t] = "u_misses_load"
    /\ tmp' = [tmp EXCEPT ![t] = misses]
    /\ Goto(t, "u_misses_store")
    /\ UNCHANGED <<params, stack, engine, lock, avail, key, result,
                   ghost, nops>>

\* misses += 1, the write
UMissesStore(t) ==
    /\ pc[t] = "u_misses_store"
    /\ misses' = tmp[t] + 1
    /\ tmp' = [tmp EXCEPT ![t] = None]
    /\ Goto(t, "return_miss")
    /\ UNCHANGED <<params, stack, cache, links, root, hits, full,
                   lock, avail, key, result, ghost, nops>>

\* ----------------------------------------------------------- maxsize == 0
\* misses += 1, the read
DLoad(t) ==
    /\ pc[t] = "d_load"
    /\ tmp' = [tmp EXCEPT ![t] = misses]
    /\ Goto(t, "d_store")
    /\ UNCHANGED <<params, stack, engine, lock, avail, key, result,
                   ghost, nops>>

\* misses += 1, the write
DStore(t) ==
    /\ pc[t] = "d_store"
    /\ misses' = tmp[t] + 1
    /\ tmp' = [tmp EXCEPT ![t] = None]
    /\ Goto(t, "return_miss")
    /\ UNCHANGED <<params, stack, cache, links, root, hits, full,
                   lock, avail, key, result, ghost, nops>>

\* ------------------------------------------------------------- cache_info
CallInfo(t) ==
    /\ Idle(t)
    /\ Goto(t, "info")
    /\ UNCHANGED <<params, stack, engine, lock, avail, key, result,
                   tmp, ghost>>

\* _CacheInfo(hits, misses, maxsize, len(cache)), as read in this state.
CacheInfo == <<hits, misses, maxsize, Cardinality(DOMAIN cache)>>

\* with lock: return _CacheInfo(...): the caller gets CacheInfo of this state.
InfoRead(t) ==
    /\ pc[t] = "info"
    /\ CanAcquire(lock, t)
    /\ lock' = Release(Acquire(lock, t), t)
    /\ Goto(t, "idle")
    /\ UNCHANGED <<params, stack, engine, avail, key, result, tmp,
                   ghost, nops>>

\* ------------------------------------------------------------ cache_clear
CallClear(t) ==
    /\ Idle(t)
    /\ Goto(t, "clear")
    /\ UNCHANGED <<params, stack, engine, lock, avail, key, result,
                   tmp, ghost>>

\* with lock: cache.clear(); root[:] = [root, root, None, None]
\* The cells no longer reached are dropped.
ClearCache(t) ==
    /\ pc[t] = "clear"
    /\ CanAcquire(lock, t)
    /\ lock' = Acquire(lock, t)
    /\ cache' = <<>>
    /\ links' = [n \in {root} |-> EmptyRoot(root)]
    /\ order' = <<>>
    /\ probeAtInsert' = None
    /\ Goto(t, "clear_stats")
    /\ UNCHANGED <<params, stack, root, hits, misses, full, avail,
                   key, result, tmp, serial, open, mixed, argtype, seen,
                   nops>>

\* hits = misses = 0; full = False; the block ends and cache_clear returns
ClearStats(t) ==
    /\ pc[t] = "clear_stats"
    /\ hits' = 0
    /\ misses' = 0
    /\ full' = FullAfterClear
    /\ lock' = Release(lock, t)
    /\ Goto(t, "idle")
    /\ calledKeys' = {}
    /\ firstRet' = None
    /\ ncalls' = 0
    /\ cleared' = TRUE
    /\ UNCHANGED <<params, stack, cache, links, root, avail, key,
                   result, tmp, order, probeAtInsert, serial, open, mixed,
                   argtype, nops>>

\* ------------------------------------------------------------ environment
\* The available memory changes between any two steps of the program.
MemChange ==
    /\ IsMemory
    /\ \E a \in AvailLevels \ {avail} : avail' = a
    /\ UNCHANGED <<params, stack, engine, lock, pc, key, result,
                   tmp, ghost, nops>>

\* ------------------------------------------------------------------- Next
Step(t) ==
    \/ Call(t)
    \/ MemLookup(t)
    \/ LruLookup(t)
    \/ Compute(t)
    \/ MemInsert(t)
    \/ LruInsert(t)
    \/ WrapperReturn(t)
    \/ UGet(t)
    \/ UHitsLoad(t)
    \/ UHitsStore(t)
    \/ UStore(t)
    \/ UMissesLoad(t)
    \/ UMissesStore(t)
    \/ DLoad(t)
    \/ DStore(t)
    \/ CallInfo(t)
    \/ InfoRead(t)
    \/ CallClear(t)
    \/ ClearCache(t)
    \/ ClearStats(t)

Next == MemChange \/ \E t \in Threads : Step(t)

Spec == Init /\ [][Next]_vars

\* Calls made one at a time.
SpecSeq == InitSeq /\ [][Next]_vars

\* A user_function that may raise or call the decorated function, and a probe
\* that may raise.
SpecOpen == InitOpen /\ [][Next]_vars

\* Calls with arguments of any type.
SpecMixed == InitMixed /\ [][Next]_vars

\* The steps of a call that has started: a thread that can take one is
\* scheduled sooner or later, and user_function ends.
Proceed(t) ==
    \/ MemLookup(t)
    \/ LruLookup(t)
    \/ Compute(t)
    \/ MemInsert(t)
    \/ LruInsert(t)
    \/ WrapperReturn(t)
    \/ UGet(t)
    \/ UHitsLoad(t)
    \/ UHitsStore(t)
    \/ UStore(t)
    \/ UMissesLoad(t)
    \/ UMissesStore(t)
    \/ DLoad(t)
    \/ DStore(t)
    \/ InfoRead(t)
    \/ ClearCache(t)
    \/ ClearStats(t)

\* SpecOpen with threads scheduled fairly.
SpecLive == SpecOpen /\ \A t \in Threads : WF_vars(Proceed(t))

\* ----------------------------------------------------- what the claims use
Size == Cardinality(DOMAIN cache)

\* The keys met walking the list from cell n to the root, oldest first.
RECURSIVE Walk(_, _, _, _)
Walk(h, r, n, fuel) ==
    IF n = r \/ fuel = 0 \/ n \notin DOMAIN h THEN <<>>
    ELSE <<h[n].KEY>> \o Walk(h, r, h[n].NEXT, fuel - 1)

ListKeys == Walk(links, root, links[root].NEXT, Cardinality(DOMAIN links) + 1)

\* The result stored for key k.
Stored(k) == IF IsLocked THEN links[cache[k]].RESULT ELSE cache[k]

\* Thread t takes the guarded insert step of an LRU wrapper in this step ...
InsertTaken(t) == pc[t] = "insert" /\ pc'[t] # "insert"
\* ... with a key that is not stored (an inserting miss) ...
InsertingMiss(t) == InsertTaken(t) /\ key[t] \notin DOMAIN cache
\* ... or with a key another thread stored while this one computed.
LostRace(t) == InsertTaken(t) /\ key[t] \in DOMAIN cache

\* C1: under maxsize = n >= 1, with calls made one at a time, a miss taken
\* while the cache holds n entries removes exactly the key whose last access
\* (insert or hit) is the oldest among the stored keys, and stores the new
\* key; once n+1 misses and no hit are counted and no call is running, the
\* size is n.
C1_EvictsLeastRecent ==
    [][IsLru =>
        /\ \A t \in Threads :
            (InsertingMiss(t) /\ Size = maxsize) =>
                /\ order # <<>>
                /\ Head(order) \in DOMAIN cache
                /\ DOMAIN cache' = (DOMAIN cache \ {Head(order)}) \cup {key[t]}
                /\ Size' = maxsize
        /\ ((\A t \in Threads : pc'[t] = "idle")
                /\ hits' = 0 /\ misses' = maxsize + 1) => Size' = maxsize
      ]_vars

\* C1's case: maxsize 2 and the calls f(1), f(2), f(1), f(3): key 1 sits in
\* the first cell made, key 3 in the old root, key 2 is gone.
C1_Witness ==
    /\ maxsize = 2
    /\ DOMAIN cache = {1, 3}
    /\ cache[1] = 1
    /\ cache[3] = 0
    /\ root = 2
    /\ hits = 1
    /\ misses = 3

\* C2: under maxsize = n >= 1 the cache never holds more than n entries; an
\* inserting miss below n entries removes nothing, and one at n entries
\* removes one entry and leaves the size at n.
C2_SizeAtMostMaxsize ==
    [][IsLru =>
        /\ Size' <= maxsize
        /\ \A t \in Threads : InsertingMiss(t) =>
            IF Size < maxsize
            THEN DOMAIN cache' = DOMAIN cache \cup {key[t]}
            ELSE /\ Size' = Size
                 /\ key[t] \in DOMAIN cache'
                 /\ Cardinality(DOMAIN cache \ DOMAIN cache') = 1
      ]_vars

\* C2's case: a cache of maxsize 2 that is full and has evicted (the root
\* moves on eviction only) after three misses.
C2_Witness ==
    /\ IsLru
    /\ maxsize = 2
    /\ Size = 2
    /\ root # 0
    /\ misses = 3

\* C3: in the caching branches (maxsize=None, maxsize >= 1, use_memory_up_to),
\* with calls made one at a time that all pass the same argument since the
\* last clear, the first call computes and is the one miss; every later call
\* returns without computing, returns what the first call returned, and is
\* counted as a hit.
C3_OnlyFirstCallMisses ==
    (serial /\ (IsLocked \/ IsUnbounded)) =>
        \A t \in Threads :
            (pc[t] \in {"return_hit", "return_miss"}
                    /\ Cardinality(calledKeys) = 1) =>
                IF ncalls = 0
                THEN pc[t] = "return_miss" /\ misses = 1 /\ hits = 0
                ELSE /\ pc[t] = "return_hit"
                     /\ result[t] = firstRet
                     /\ misses = 1
                     /\ hits = ncalls

\* C3's case: the third call with the same argument returns as a hit.
C3_Witness ==
    \E t \in Threads :
        /\ pc[t] = "return_hit"
        /\ ncalls = 2
        /\ Cardinality(calledKeys) = 1
        /\ hits = 2
        /\ misses = 1

\* C4: in the LRU branches a thread that finds its key stored when it comes
\* back from computing changes nothing but misses (plus one) and returns its
\* own result; a thread that does not find it stores its own result; the
\* list never holds a key twice and each entry of the map is the cell of
\* its key.
C4_FirstInsertWins ==
    [][IsLocked =>
        /\ LET walk == ListKeys' IN
            \A i, j \in 1 .. Len(walk) : walk[i] = walk[j] => i = j
        /\ \A k \in DOMAIN cache' : links'[cache'[k]].KEY = k
        /\ \A t \in Threads :
            /\ LostRace(t) =>
                /\ UNCHANGED <<cache, links, root, full, hits, order>>
                /\ misses' = misses + 1
                /\ pc'[t] = "return_miss"
                /\ result'[t] = result[t]
            /\ InsertingMiss(t) =>
                /\ key[t] \in DOMAIN cache'
                /\ links'[cache'[key[t]]].RESULT = result[t]
                /\ result'[t] = result[t]
      ]_vars

\* C4's case: a thread returns from the miss path with a result that differs
\* from the one stored for its key.
C4_Witness ==
    \E t \in Threads :
        /\ IsLocked
        /\ pc[t] = "return_miss"
        /\ key[t] \in DOMAIN cache
        /\ Stored(key[t]) # result[t]
        /\ misses = 2
        /\ Size = 1

\* C5: in every branch, the result stored for a key is never replaced while
\* the key stays stored.
C5_NoOverwrite ==
    [][\A k \in DOMAIN cache \cap DOMAIN cache' : Stored(k)' = Stored(k)]_vars

\* C6: a thread inside user_function does not hold the lock.
C6_NoLockWhileComputing ==
    \A t \in Threads : pc[t] = "compute" => lock.owner # t

\* C6's case: one thread computes while another holds the lock.
C6_Witness ==
    \E t, u \in Threads :
        /\ IsLocked
        /\ pc[t] = "compute"
        /\ u # t
        /\ lock.owner = u

\* C7: in every branch, a tuple that cache_info can return has
\* currsize <= misses.
C7_SnapshotConsistent ==
    \A t \in Threads :
        (pc[t] = "info" /\ CanAcquire(lock, t)) => CacheInfo[4] <= CacheInfo[2]

\* C8: when cache_clear returns, the map and the list are empty, hits and
\* misses are 0 and full is false.
C8_ClearResetsAll ==
    [][\A t \in Threads :
        (pc[t] = "clear_stats" /\ pc'[t] = "idle") =>
            /\ cache' = <<>>
            /\ ListKeys' = <<>>
            /\ hits' = 0
            /\ misses' = 0
            /\ full' = FALSE
      ]_vars

\* C9: under use_memory_up_to, when the available memory was at or above the
\* threshold at the latest insertion, the next inserting miss evicts nothing.
C9_ProbeAfterEveryInsert ==
    [][IsMemory =>
        \A t \in Threads :
            (InsertingMiss(t) /\ probeAtInsert # None
                    /\ probeAtInsert >= use_memory_up_to) =>
                DOMAIN cache' = DOMAIN cache \cup {key[t]}
      ]_vars

\* C10: under use_memory_up_to, when the available memory was below the
\* threshold at the latest insertion (no clear since), the next inserting
\* miss removes the least recently used key, stores the new key with the
\* caller's result, and leaves the size as it was.
C10_EvictsWhenProbeLow ==
    [][IsMemory =>
        \A t \in Threads :
            (InsertingMiss(t) /\ probeAtInsert # None
                    /\ probeAtInsert < use_memory_up_to) =>
                /\ order # <<>>
                /\ Head(order) \in DOMAIN cache
                /\ DOMAIN cache' = (DOMAIN cache \ {Head(order)}) \cup {key[t]}
                /\ Size' = Size
                /\ links'[cache'[key[t]]].RESULT = result[t]
      ]_vars

\* C10's case: two misses under use_memory_up_to, the second of which evicted.
C10_Witness ==
    /\ IsMemory
    /\ probeAtInsert # None
    /\ probeAtInsert < use_memory_up_to
    /\ root # 0
    /\ Size = 1
    /\ misses = 2

\* Thread t moves in this step.
Moves(t) == pc'[t] # pc[t] \/ stack'[t] # stack[t]

\* user_function, called by thread t, raises in this step.
ComputeFails(t) ==
    /\ pc[t] = "compute"
    /\ pc'[t] # "compute"
    /\ stack'[t] = stack[t]
    /\ result'[t] = None

\* C11: in every branch, when user_function raises, the exception leaves the
\* wrapper and that step changes nothing of the cache: map, list, recency
\* order, full, hits, misses and the lock are as they were; neither did the
\* steps of the call before it (building the key, a lookup that found
\* nothing) nor does the step that hands the exception to the caller.  A
\* thread that inserts its key (the same key or another) stores it with its
\* own result.
C11_FailureLeavesNoTrace ==
    [][\A t \in Threads :
        /\ ComputeFails(t) =>
            /\ pc'[t] = "raise"
            /\ UNCHANGED <<engine, order, lock>>
        /\ (Moves(t) /\ pc[t] \in {"idle", "raise"}) => UNCHANGED <<engine, order>>
        /\ (pc[t] \in {"lookup", "u_get"} /\ pc'[t] = "compute") =>
            UNCHANGED <<engine, order>>
        /\ (IsLocked /\ InsertingMiss(t)) =>
            /\ key[t] \in DOMAIN cache'
            /\ links'[cache'[key[t]]].RESULT = result[t]
      ]_vars

\* C11's case: user_function raised for one thread, which found nothing and
\* stored nothing, and another thread that computed for the same key stored
\* its result and counted its miss.
C11_Witness ==
    \E t, u \in Threads :
        /\ IsLocked
        /\ t # u
        /\ pc[t] = "raise"
        /\ result[t] = None
        /\ pc[u] = "return_miss"
        /\ key[u] = key[t]
        /\ key[u] \in DOMAIN cache
        /\ Stored(key[u]) = result[u]
        /\ misses = 1

\* The memory probe raises in this step of thread t, which has just put its
\* result in a new link.
ProbeFails(t) == IsMemory /\ InsertingMiss(t) /\ ~full /\ probeAtInsert' = None

\* C12: under use_memory_up_to, when the memory probe raises in the fullness
\* query that follows an insertion, the wrapper does not raise: it returns
\* the computed result, full is recorded as false, the miss is counted and
\* the lock is free for later calls.
C12_ProbeFailureFailsOpen ==
    [][\A t \in Threads :
        ProbeFails(t) =>
            /\ pc'[t] = "return_miss"
            /\ result'[t] = result[t]
            /\ full' = FALSE
            /\ misses' = misses + 1
            /\ lock' = LockFree
      ]_vars

\* The argument value a key was built from.
KeyVal(k) == ((k - 1) % NKeys) + 1

\* C13: with typed=False, in the caching branches, calls whose arguments
\* are equal values of different types (3 and 3.0) share one entry: no two
\* stored keys are built from equal values, so the second of two such calls
\* made one after the other finds the entry of the first.
C13_EqualValuesShareEntry ==
    (mixed /\ ~typed /\ ~IsDisabled) =>
        \A k1, k2 \in DOMAIN cache : KeyVal(k1) = KeyVal(k2) => k1 = k2

\* C15: in every branch, a call whose argument is unhashable raises
\* TypeError at once: user_function is not called, and the map, the list,
\* full, hits and misses are unchanged.
C15_UnhashableRaisesAtOnce ==
    [][\A t \in Threads :
        (Moves(t) /\ pc[t] = "idle" /\ argtype'[t] = "list") =>
            /\ pc'[t] = "raise"
            /\ UNCHANGED <<engine, order>>
      ]_vars

\* No call is running.
Quiet == \A t \in Threads : pc[t] = "idle" /\ stack[t] = <<>>

\* C14: under maxsize=0, with no cache_clear, once the calls made (at the
\* same time or not) have all returned, misses is the number of calls that
\* returned a result, hits is 0 and the cache is empty.
C14_DisabledCountsEveryCall ==
    (IsDisabled /\ ~cleared /\ Quiet) =>
        /\ misses = ncalls
        /\ hits = 0
        /\ Size = 0

\* C16: in the LRU branches, whenever no thread holds the lock: the walk of
\* the list from root's NEXT back to root meets each key of the map once and
\* nothing else; each entry of the map is the cell of its key; PREV and NEXT
\* are inverse of each other; the root holds no key and is no entry of the
\* map; and the root is linked to itself, on both sides, exactly when the
\* map is empty.
C16_ListMatchesMap ==
    (IsLocked /\ lock.owner = None) =>
        /\ Len(ListKeys) = Size
        /\ {ListKeys[i] : i \in 1 .. Len(ListKeys)} = DOMAIN cache
        /\ \A k \in DOMAIN cache : cache[k] # root /\ links[cache[k]].KEY = k
        /\ \A n \in DOMAIN links :
            /\ links[n].NEXT \in DOMAIN links
            /\ links[n].PREV \in DOMAIN links
            /\ links[links[n].NEXT].PREV = n
            /\ links[links[n].PREV].NEXT = n
        /\ links[root].KEY = None
        /\ links[root].RESULT = None
        /\ (links[root].NEXT = root) <=> (cache = <<>>)
        /\ (links[root].PREV = root) <=> (cache = <<>>)

\* C16's case: two entries in the list after an eviction moved the root.
C16_Witness ==
    /\ IsLocked
    /\ lock.owner = None
    /\ root # 0
    /\ Len(ListKeys) = 2
    /\ links[root].NEXT # links[root].PREV

\* Thread t finds its key in the guarded lookup of an LRU wrapper ...
HitTaken(t) == IsLocked /\ pc[t] = "lookup" /\ pc'[t] = "return_hit"
\* ... or does not.
LookupMissTaken(t) == IsLocked /\ pc[t] = "lookup" /\ pc'[t] = "compute"

\* C17: in the LRU branches a hit adds one to hits, returns the stored
\* result and moves the entry hit to the most recent end of the list; the
\* map and its cells, every stored result, the size, the root, misses, full
\* and the order of the other entries are unchanged.  A lookup that finds
\* nothing changes nothing.
C17_HitOnlyPromotes ==
    [][\A t \in Threads :
        /\ HitTaken(t) =>
            /\ hits' = hits + 1
            /\ result'[t] = Stored(key[t])
            /\ ListKeys' = Touch(ListKeys, key[t])
            /\ UNCHANGED <<cache, root, misses, full>>
            /\ DOMAIN links' = DOMAIN links
            /\ \A n \in DOMAIN links :
                links'[n].KEY = links[n].KEY /\ links'[n].RESULT = links[n].RESULT
        /\ LookupMissTaken(t) => UNCHANGED <<engine, order>>
      ]_vars

\* C17's case: of two entries, the one stored first was hit and is now the
\* most recent.
C17_Witness ==
    \E t \in Threads :
        /\ IsLocked
        /\ pc[t] = "return_hit"
        /\ Len(ListKeys) = 2
        /\ ListKeys[2] = key[t]
        /\ cache[ListKeys[2]] < cache[ListKeys[1]]
        /\ hits = 1

\* C18: in the LRU branches, under every interleaving of calls (those that
\* were computing while cache_clear ran included) and cache_clear: whenever
\* the lock is free and full is true the map is not empty; and a miss taken
\* while full is true finds the oldest cell holding a key of the map,
\* removes that key, stores its own and returns: del cache[oldkey] never
\* meets the root's empty key.
C18_FullMeansNotEmpty ==
    [][IsLocked =>
        /\ (lock'.owner = None /\ full') =>
            /\ Size' >= 1
            /\ links'[links'[root'].NEXT].KEY \in DOMAIN cache'
        /\ \A t \in Threads :
            (InsertingMiss(t) /\ full) =>
                /\ Size >= 1
                /\ Head(ListKeys) \in DOMAIN cache
                /\ pc'[t] = "return_miss"
                /\ DOMAIN cache' = (DOMAIN cache \ {Head(ListKeys)}) \cup {key[t]}
      ]_vars

\* C18's case: cache_clear has emptied a full cache and still holds the lock,
\* full not yet reset, while another thread is inside user_function.
C18_Witness ==
    \E t, u \in Threads :
        /\ IsLocked
        /\ pc[t] = "compute"
        /\ pc[u] = "clear_stats"
        /\ full
        /\ Size = 0

\* The calls that have counted their hit or miss and not yet returned.
Counted == Cardinality({t \in Threads : pc[t] \in {"return_hit", "return_miss"}})

\* C19: in the LRU branches, with no cache_clear, hits + misses is the
\* number of calls that returned a result plus those about to return one:
\* every call counts once, as a hit or as a miss, whether it stored its
\* result, found its key stored by another thread, or evicted an entry; so
\* once all calls have returned, hits + misses is their number.
C19_EveryCallCountedOnce ==
    (IsLocked /\ ~cleared) => hits + misses = ncalls + Counted

\* C19's case: three calls returned under maxsize=1, all misses: one stored
\* its result in a new cell, one found its key stored meanwhile, one evicted
\* (the root moved once).
C19_Witness ==
    /\ IsLru
    /\ maxsize = 1
    /\ ~cleared
    /\ Quiet
    /\ ncalls = 3
    /\ misses = 3
    /\ root = 1

\* A thread is between the two statements of cache_clear's lock block.
InGuarded == \E t \in Threads : pc[t] = "clear_stats"

\* C20: in every branch, with threads scheduled fairly and a user_function
\* that ends (with a result, an exception, or after calling the decorated
\* function itself), every call of the wrapper, cache_info and cache_clear
\* returns, and the lock is free whenever no thread is inside a lock block,
\* so also after a hit, which returns from inside the block.
C20_EveryCallReturns ==
    /\ \A t \in Threads :
        (pc[t] # "idle") ~> (pc[t] = "idle" /\ stack[t] = <<>>)
    /\ [](InGuarded \/ lock = LockFree)

\* C20's case: a call made by user_function hit an entry and is about to
\* return into it; the lock is free.
C20_Witness ==
    \E t \in Threads :
        /\ IsLocked
        /\ stack[t] # <<>>
        /\ pc[t] = "return_hit"
        /\ lock = LockFree

====
